---- MODULE Spec2Model ----
(***************************************************************************)
(* The log-tailing command `logs` of src/src/commands.ts (lines 329-492):  *)
(* the dedup cache logEntryCache, the batch printer printLogs, the fetch   *)
(* routine fetchAndPrintLogs and the one-shot / watch dispatch.            *)
(*                                                                         *)
(* Strings are strings.  An absent (undefined) string field is the empty   *)
(* string: both are falsy in every test the code makes.  Instants are      *)
(* milliseconds since the epoch; the timestamp of an entry is carried as   *)
(* an integer and printed with ToString.  Insertion identifiers are        *)
(* strings, as they are the keys of the object logEntryCache.              *)
(***************************************************************************)
EXTENDS Integers, Sequences, FiniteSets, TLC

VARIABLES
    cmd,            \* the options record of logs(): [json, watch]
    isLocalCreds,   \* oauthSettings.isLocalCreds
    started,        \* whether the mode dispatch (lines 482-491) has run
    timer,          \* "none" | "armed": the setInterval timer
    now,            \* the wall clock read by new Date()
    ticks,          \* number of timer callbacks run so far
    pending,        \* fetches awaiting logger.entries.list: set of [id, filter]
    logEntryCache,  \* own keys of the object logEntryCache
    stdout,         \* lines written by console.log
    stderr,         \* descriptions reported through logError
    fetchLog,       \* history: every request handed to logger.entries.list
    done,           \* history: every completed fetch, in order of completion
    rejected,       \* ids of the fetches whose promise rejected (printLogs threw)
    session2        \* a second invocation of logs in the same process: its own
                    \* logEntryCache, the lines it printed, the batches it processed

vars == << cmd, isLocalCreds, started, timer, now, ticks, pending,
           logEntryCache, stdout, stderr, fetchLog, done, rejected, session2 >>

(***************************************************************************)
(* Bounds of the model.                                                    *)
(***************************************************************************)
MaxTicks == 2      \* timer callbacks explored in one session
MaxLen == 2        \* length of the freely enumerated batches
MaxOver == 1       \* how far a long batch exceeds the print cap

(***************************************************************************)
(* Program constants.                                                      *)
(***************************************************************************)
PrintCap == 50          \* the literal 50 of the loop condition
POLL_INTERVAL == 6000   \* const POLL_INTERVAL = 6000
WindowFactor == 10      \* the literal 10 of (10 * POLL_INTERVAL) / 1000
FunctionNameWidth == 15 \* padEnd(functionName, 15)
PayloadWidth == 20      \* padEnd(payloadData, 20)
SeverityWidth == 20     \* padEnd(String(coloredSeverity), 20)
JsonPayloadMax == 255   \* .substr(0, 255)

Min(a, b) == IF a < b THEN a ELSE b
Max(a, b) == IF a > b THEN a ELSE b

\* (mutant) the batch is left in the order the source sent it
ReverseForgotten(s) == s

\* Array.prototype.reverse
Reverse(s) == [i \in 1..Len(s) |-> s[Len(s) + 1 - i]]

(***************************************************************************)
(* Strings.                                                                *)
(***************************************************************************)
\* n spaces, for n up to the widest padding of the program
Spaces(n) == SubSeq("                    ", 1, n)

\* string.prototype.padend: spaces are appended up to the target length
padEnd(s, n) == s \o Spaces(n - Len(s))

\* String.prototype.substr(0, n)
substr0(s, n) == SubSeq(s, 1, Min(Len(s), n))

\* a JavaScript string used as a condition
Truthy(s) == s # ""

\* chalk.<color>(s): s between the colour's opening and closing escape
\* sequence; "~" stands for the ESC character
chalk(open, s) == "~[" \o open \o "m" \o s \o "~[39m"

(***************************************************************************)
(* Texts of ./utils (members of ERROR and LOG): fixed, distinct, non-empty. *)
(***************************************************************************)
ERROR_NO_FUNCTION_NAME == "N/A"
ERROR_PAYLOAD_UNKNOWN == "Unknown Payload"
LOG_STACKDRIVER_SETUP == "Setting up StackDriver Logging."
ERROR_UNAUTHENTICATED == "Error: Unauthenticated request"
ERROR_UNAUTHENTICATED_LOCAL == "Error: Local client credentials unauthenticated"
ERROR_PERMISSION_DENIED == "Error: Permission denied. Enable the Apps Script API"
ERROR_PERMISSION_DENIED_LOCAL == "Error: Permission denied. Be sure that you have enabled the API"

AuditLogType == "type.googleapis.com/google.cloud.audit.AuditLog"

(***************************************************************************)
(* Plain objects.  A lookup obj[key] on an object literal finds the        *)
(* members inherited from Object.prototype when obj has no own key.        *)
(***************************************************************************)
ObjectPrototypeKeys == {"constructor", "__proto__", "toString", "valueOf", "hasOwnProperty"}

\* String(Object.prototype[key])
ObjectPrototypeText(key) ==
    IF key = "__proto__" THEN "[object Object]"
    ELSE "function " \o (IF key = "constructor" THEN "Object" ELSE key) \o "() { [native code] }"

(***************************************************************************)
(* Log entries.  resource is "absent" (no resource field), "nolabels"      *)
(* (a resource without labels) or "labels"; function_name, textPayload     *)
(* are "" when absent.  A payload object is [present, atType, methodName,  *)
(* message], "" meaning that the object has no such key.                   *)
(***************************************************************************)
NoObject == [present |-> FALSE, atType |-> "", methodName |-> "", message |-> ""]
Object(atType, methodName, message) ==
    [present |-> TRUE, atType |-> atType, methodName |-> methodName, message |-> message]

\* JSON.stringify(obj) of a payload object
JSONstringify(o) ==
    LET t == IF o.atType = "" THEN << >> ELSE << "\"@type\":\"" \o o.atType \o "\"" >>
        n == IF o.methodName = "" THEN << >> ELSE << "\"methodName\":\"" \o o.methodName \o "\"" >>
        m == IF o.message = "" THEN << >> ELSE << "\"message\":\"" \o o.message \o "\"" >>
        fs == t \o n \o m
        Join[i \in 0..Len(fs)] ==
            IF i = 0 THEN "" ELSE Join[i - 1] \o (IF i = 1 THEN "" ELSE ",") \o fs[i]
    IN  "{" \o Join[Len(fs)] \o "}"

\* JSON.stringify(entry, null, 2): the whole raw entry, indented
JSONstringifyEntry(e) ==
    "{\n  \"insertId\": \"" \o e.insertId \o "\",\n  \"severity\": \"" \o e.severity
    \o "\",\n  \"timestamp\": \"" \o ToString(e.timestamp) \o "\""
    \o (IF e.resource = "absent" THEN ""
        ELSE ",\n  \"resource\": {"
             \o (IF e.resource = "nolabels" THEN ""
                 ELSE "\n    \"labels\": {"
                      \o (IF e.function_name = "" THEN ""
                          ELSE "\n      \"function_name\": \"" \o e.function_name \o "\"\n    ")
                      \o "}\n  ")
             \o "}")
    \o (IF e.textPayload = "" THEN "" ELSE ",\n  \"textPayload\": \"" \o e.textPayload \o "\"")
    \o (IF e.jsonPayload.present THEN ",\n  \"jsonPayload\": " \o JSONstringify(e.jsonPayload) ELSE "")
    \o (IF e.protoPayload.present THEN ",\n  \"protoPayload\": " \o JSONstringify(e.protoPayload) ELSE "")
    \o "\n}"

(***************************************************************************)
(* The entries a response can carry.  Entry(n) is well formed; its         *)
(* severity, function name and payload kind vary with n.                   *)
(***************************************************************************)
Entry(n) ==
    [ insertId      |-> "id" \o ToString(n),
      timestamp     |-> 1000 * n,
      severity      |-> << "INFO", "ERROR", "VERBOSE" >>[(n % 3) + 1],
      resource      |-> "labels",
      function_name |-> IF n % 2 = 1 THEN "myFunction" ELSE "",
      textPayload   |-> IF n % 3 = 1 THEN "hello " \o ToString(n) ELSE "",
      jsonPayload   |-> IF n % 3 = 2 THEN Object("", "", "m" \o ToString(n)) ELSE NoObject,
      protoPayload  |-> IF n % 3 = 0 THEN Object("type.example/Status", "", "p") ELSE NoObject ]

\* a resource without labels
NoLabelsEntry ==
    [Entry(1) EXCEPT !.insertId = "nolabels", !.timestamp = 1500, !.resource = "nolabels",
                     !.function_name = ""]

\* no resource at all
NoResourceEntry ==
    [Entry(1) EXCEPT !.insertId = "noresource", !.timestamp = 2500, !.resource = "absent",
                     !.function_name = ""]

\* an insertion identifier that is the name of a member of Object.prototype
ConstructorEntry == [Entry(1) EXCEPT !.insertId = "constructor", !.timestamp = 3500]

\* an audit-log record in the proto payload
AuditEntry ==
    [Entry(3) EXCEPT !.insertId = "audit", !.timestamp = 4500, !.severity = "NOTICE",
                     !.protoPayload = Object(AuditLogType, "CreateSink", "")]

(***************************************************************************)
(* printLogs, lines 344-385.                                               *)
(***************************************************************************)
\* lines 370-378: coloredStringMap[severity] || severity, padded
ColoredSeverity(severity) ==
    LET coloredStringMap ==
            [ ERROR   |-> chalk("31", severity),
              INFO    |-> chalk("36", severity),
              DEBUG   |-> chalk("32", severity),
              NOTICE  |-> chalk("35", severity),
              WARNING |-> chalk("33", severity) ]
        looked ==
            IF severity \in DOMAIN coloredStringMap THEN coloredStringMap[severity]
            ELSE IF severity \in ObjectPrototypeKeys THEN ObjectPrototypeText(severity)
            ELSE severity
    IN  padEnd(looked, SeverityWidth)

\* (mutant) the JSON payload is preferred to the text payload
SelectedPayloadJsonFirst(e) ==
    LET jsonText == IF e.jsonPayload.present
                    THEN substr0(JSONstringify(e.jsonPayload), JsonPayloadMax)
                    ELSE ""
    IN  IF Truthy(jsonText) THEN [isString |-> TRUE, s |-> jsonText, o |-> NoObject]
        ELSE IF Truthy(e.textPayload) THEN [isString |-> TRUE, s |-> e.textPayload, o |-> NoObject]
        ELSE IF e.protoPayload.present THEN [isString |-> FALSE, s |-> "", o |-> e.protoPayload]
        ELSE [isString |-> TRUE, s |-> ERROR_PAYLOAD_UNKNOWN, o |-> NoObject]

\* lines 354-361: data.textPayload || data.jsonPayload || data.protoPayload || unknown
SelectedPayload(e) ==
    LET jsonText == IF e.jsonPayload.present
                    THEN substr0(JSONstringify(e.jsonPayload), JsonPayloadMax)
                    ELSE ""
    IN  IF Truthy(e.textPayload) THEN [isString |-> TRUE, s |-> e.textPayload, o |-> NoObject]
        ELSE IF Truthy(jsonText) THEN [isString |-> TRUE, s |-> jsonText, o |-> NoObject]
        ELSE IF e.protoPayload.present THEN [isString |-> FALSE, s |-> "", o |-> e.protoPayload]
        ELSE [isString |-> TRUE, s |-> ERROR_PAYLOAD_UNKNOWN, o |-> NoObject]

\* (mutant) the override looks at the proto payload whatever was selected
IsAuditLogAnyPayload(e) == e.protoPayload.atType = AuditLogType

\* line 362: payloadData['@type'] === the audit-log type
IsAuditLog(e) ==
    LET p == SelectedPayload(e) IN ~p.isString /\ p.o.atType = AuditLogType

\* a TypeError is raised while entries[i] is rendered: resource.labels.function_name
\* of a missing resource or of missing labels (line 348), padEnd of a missing
\* methodName (line 364)
RenderThrows(e, json) ==
    \/ e.resource # "labels"
    \/ ~json /\ IsAuditLog(e) /\ e.protoPayload.methodName = ""

\* lines 348-349 and 364
FunctionNameField(e, json) ==
    IF ~json /\ IsAuditLog(e) THEN padEnd(e.protoPayload.methodName, FunctionNameWidth)
    ELSE IF Truthy(e.function_name) THEN padEnd(e.function_name, FunctionNameWidth)
    ELSE ERROR_NO_FUNCTION_NAME

\* lines 350-369; an object payload is interpolated as "[object Object]"
PayloadField(e, json) ==
    IF json THEN JSONstringifyEntry(e)
    ELSE LET p == SelectedPayload(e) IN
         IF IsAuditLog(e) THEN padEnd(LOG_STACKDRIVER_SETUP, PayloadWidth)
         ELSE IF p.isString THEN padEnd(p.s, PayloadWidth)
         ELSE "[object Object]"

\* line 381: the text handed to console.log
RenderLine(e, json) ==
    ColoredSeverity(e.severity) \o " " \o ToString(e.timestamp) \o " "
    \o FunctionNameField(e, json) \o " " \o PayloadField(e, json)

\* a line of standard output: its text and, for the line of an entry, the
\* entry it renders
EntryLine(e, json) ==
    [text |-> RenderLine(e, json), src |-> "entry", insertId |-> e.insertId,
     timestamp |-> e.timestamp]

\* line 380: logEntryCache[insertId]
CacheGet(cache, id) == id \in cache \/ id \in ObjectPrototypeKeys

\* (mutant) the printed entry is not marked
CacheSetForgotten(cache, id) == cache

\* (mutant) the cache remembers the latest identifier only
CacheSetLatestOnly(cache, id) == {id}

\* line 382: logEntryCache[insertId] = true
CacheSet(cache, id) == cache \cup {id}

\* (mutant) the loop admits one index more
LoopCondOneMore(i, entries) == IF i <= PrintCap THEN i < Len(entries) ELSE i < 0

\* (mutant) the loop runs over the whole batch
LoopCondUncapped(i, entries) == i < Len(entries)

\* line 346: i < 50 && entries ? i < entries.length : i < 0  (an array is truthy)
LoopCond(i, entries) == IF i < PrintCap /\ TRUE THEN i < Len(entries) ELSE i < 0

\* (mutant) the identifier is marked as soon as the entry is examined, before it
\* is rendered
printStepMarksFirst(i, entries, json, st) ==
    IF st.ended THEN st
    ELSE IF ~LoopCond(i, entries) THEN [st EXCEPT !.ended = TRUE]
    ELSE LET e == entries[i + 1]
             seen == CacheGet(st.cache, e.insertId)
             marked == [st EXCEPT !.cache = CacheSet(st.cache, e.insertId)]
         IN  IF RenderThrows(e, json) THEN [marked EXCEPT !.ended = TRUE, !.threw = TRUE]
             ELSE IF ~seen THEN [marked EXCEPT !.out = Append(st.out, EntryLine(e, json))]
             ELSE st

\* lines 346-384, the iteration at index i: nothing once the loop has ended;
\* else the loop condition, and the body when it holds.  st is the cache, the
\* lines printed so far, whether the loop has ended and whether a TypeError
\* ended it
printStep(i, entries, json, st) ==
    IF st.ended THEN st
    ELSE IF ~LoopCond(i, entries) THEN [st EXCEPT !.ended = TRUE]
    ELSE LET e == entries[i + 1] IN
         IF RenderThrows(e, json) THEN [st EXCEPT !.ended = TRUE, !.threw = TRUE]
         ELSE IF ~CacheGet(st.cache, e.insertId)
              THEN [st EXCEPT !.out = Append(st.out, EntryLine(e, json)),
                              !.cache = CacheSet(st.cache, e.insertId)]
              ELSE st

\* the iterations lo, lo+1, ..., hi-1 in this order (split in halves to keep
\* the evaluation shallow)
RECURSIVE printLoop(_, _, _, _, _)
printLoop(lo, hi, entries, json, st) ==
    IF st.ended \/ hi <= lo THEN st
    ELSE IF hi = lo + 1 THEN printStep(lo, entries, json, st)
    ELSE LET mid == (lo + hi) \div 2
             half == printLoop(lo, mid, entries, json, st)
         IN  printLoop(mid, hi, entries, json, half)

\* (mutant) no default parameter: reversing an absent batch raises a TypeError
printLogsNoDefault(data, json, cache) ==
    IF ~data.hasEntries
    THEN [cache |-> cache, out |-> << >>, ended |-> TRUE, threw |-> TRUE]
    ELSE printLoop(0, Len(data.entries) + 1, Reverse(data.entries), json,
                   [cache |-> cache, out |-> << >>, ended |-> FALSE, threw |-> FALSE])

\* lines 344-345: the default parameter and the reversal; then the loop, whose
\* condition fails at index entries.length at the latest
printLogs(data, json, cache) ==
    LET entries == IF data.hasEntries THEN data.entries ELSE << >>
    IN  printLoop(0, Len(entries) + 1, Reverse(entries), json,
                  [cache |-> cache, out |-> << >>, ended |-> FALSE, threw |-> FALSE])

(***************************************************************************)
(* Dates.  The time zone of the process is fixed for a session.            *)
(***************************************************************************)
LocalTZA == 60 * 60 * 1000
MsPerDay == 24 * 60 * 60 * 1000

\* Date.prototype.getSeconds: the seconds field of the local time
getSeconds(t) == ((t + LocalTZA) \div 1000) % 60

\* Date.prototype.setSeconds(sec): the local time with its seconds field
\* replaced, sec outside 0..59 carrying into the other fields
setSeconds(t, sec) ==
    LET local == t + LocalTZA
        day == local \div MsPerDay
        tod == local % MsPerDay
        hour == tod \div (60 * 60 * 1000)
        min == (tod \div (60 * 1000)) % 60
        ms == tod % 1000
    IN  day * MsPerDay + hour * (60 * 60 * 1000) + min * (60 * 1000) + sec * 1000 + ms
        - LocalTZA

\* n written with at least w digits
RECURSIVE Digits(_, _)
Digits(n, w) ==
    IF w <= 1 /\ n < 10 THEN ToString(n) ELSE Digits(n \div 10, w - 1) \o ToString(n % 10)

\* the civil date [y, m, d] of a day number counted from 1970-01-01
CivilFromDays(days) ==
    LET z == days + 719468
        era == z \div 146097
        doe == z - era * 146097
        yoe == (doe - doe \div 1460 + doe \div 36524 - doe \div 146096) \div 365
        doy == doe - (365 * yoe + yoe \div 4 - yoe \div 100)
        mp == (5 * doy + 2) \div 153
        m == IF mp < 10 THEN mp + 3 ELSE mp - 9
    IN  [y |-> yoe + era * 400 + (IF m <= 2 THEN 1 ELSE 0), m |-> m,
         d |-> doy - (153 * mp + 2) \div 5 + 1]

\* Date.prototype.toISOString: YYYY-MM-DDTHH:mm:ss.sssZ in UTC
toISOString(t) ==
    LET date == CivilFromDays(t \div MsPerDay)
        tod == t % MsPerDay
    IN  Digits(date.y, 4) \o "-" \o Digits(date.m, 2) \o "-" \o Digits(date.d, 2) \o "T"
        \o Digits(tod \div (60 * 60 * 1000), 2) \o ":" \o Digits((tod \div (60 * 1000)) % 60, 2)
        \o ":" \o Digits((tod \div 1000) % 60, 2) \o "." \o Digits(tod % 1000, 3) \o "Z"

(***************************************************************************)
(* fetchAndPrintLogs, lines 444-478, in two steps: up to the await of      *)
(* logger.entries.list, and from the response on.                          *)
(***************************************************************************)
\* lines 448-451
Filter(hasStartDate, startDate) ==
    IF hasStartDate THEN "timestamp >= \"" \o toISOString(startDate) \o "\"" ELSE ""

\* lines 452-458: the request handed to logger.entries.list; id numbers the
\* requests of the session, tick and at record when it was issued
Request(hasStartDate, startDate, tick, at) ==
    [ id |-> Len(fetchLog) + 1, filter |-> Filter(hasStartDate, startDate),
      orderBy |-> "timestamp desc", tick |-> tick, at |-> at ]

\* logError(null, description) of ./utils: the description is reported once on
\* the error sink and control returns to the caller
logError(sink, description) == Append(sink, description)

StatusText(status) ==
    IF status = 401 THEN "Unauthorized"
    ELSE IF status = 403 THEN "Forbidden"
    ELSE IF status = 500 THEN "Internal Server Error"
    ELSE "OK"

\* (mutant) the two credential contexts are exchanged
ErrorReportsSwapped(status, local) ==
    LET unauthenticated == IF local THEN ERROR_UNAUTHENTICATED ELSE ERROR_UNAUTHENTICATED_LOCAL
        denied == IF local THEN ERROR_PERMISSION_DENIED ELSE ERROR_PERMISSION_DENIED_LOCAL
        other == "(" \o ToString(status) \o ") Error: " \o StatusText(status)
    IN  IF status = 401 THEN << unauthenticated, denied, other >>
        ELSE IF status = 403 THEN << denied, other >>
        ELSE << other >>

\* (mutant) a status without a case of its own is not reported
ErrorReportsKnownOnly(status, local) ==
    LET unauthenticated == IF local THEN ERROR_UNAUTHENTICATED_LOCAL ELSE ERROR_UNAUTHENTICATED
        denied == IF local THEN ERROR_PERMISSION_DENIED_LOCAL ELSE ERROR_PERMISSION_DENIED
    IN  IF status = 401 THEN << unauthenticated, denied >>
        ELSE IF status = 403 THEN << denied >>
        ELSE << >>

\* lines 464-474: the descriptions passed to logError, in order; a case
\* without break runs on into the cases below it
ErrorReports(status, local) ==
    LET unauthenticated == IF local THEN ERROR_UNAUTHENTICATED_LOCAL ELSE ERROR_UNAUTHENTICATED
        denied == IF local THEN ERROR_PERMISSION_DENIED_LOCAL ELSE ERROR_PERMISSION_DENIED
        other == "(" \o ToString(status) \o ") Error: " \o StatusText(status)
    IN  IF status = 401 THEN << unauthenticated, denied, other >>
        ELSE IF status = 403 THEN << denied, other >>
        ELSE << other >>

RECURSIVE logErrors(_, _)
logErrors(sink, descriptions) ==
    IF descriptions = << >> THEN sink
    ELSE logErrors(logError(sink, Head(descriptions)), Tail(descriptions))

\* line 462: console.log(filter)
FilterLine(filter) == [text |-> filter, src |-> "filter", insertId |-> "", timestamp |-> 0]

\* (mutant) the batch is checked against the cache as it was when the session
\* began, and its marks are merged in afterwards
CompleteEffectsStaleCache(r, status, data) ==
    LET ok == status = 200
        run == IF ok THEN printLogs(data, cmd.json, {})
               ELSE [cache |-> {}, out |-> << >>, ended |-> TRUE, threw |-> FALSE]
        reports == IF ok THEN << >> ELSE ErrorReports(status, isLocalCreds)
    IN  /\ stdout' = Append(stdout, FilterLine(r.filter)) \o run.out
        /\ stderr' = logErrors(stderr, reports)
        /\ logEntryCache' = logEntryCache \cup run.cache
        /\ rejected' = IF run.threw THEN rejected \cup {r.id} ELSE rejected
        /\ done' = Append(done, [ id |-> r.id, status |-> status, data |-> data,
                                  before |-> logEntryCache, after |-> logEntryCache',
                                  printed |-> run.out, threw |-> run.threw,
                                  reports |-> reports, called |-> ok,
                                  failedAt |-> IF ok THEN 0 ELSE ticks ])

\* lines 460-477: what the rest of fetchAndPrintLogs does with the response of
\* request r: the filter is echoed, then the errors are reported or the
\* entries printed
CompleteEffects(r, status, data) ==
    LET ok == status = 200
        run == IF ok THEN printLogs(data, cmd.json, logEntryCache)
               ELSE [cache |-> logEntryCache, out |-> << >>, ended |-> TRUE, threw |-> FALSE]
        reports == IF ok THEN << >> ELSE ErrorReports(status, isLocalCreds)
    IN  /\ stdout' = Append(stdout, FilterLine(r.filter)) \o run.out
        /\ stderr' = logErrors(stderr, reports)
        /\ logEntryCache' = run.cache
        /\ rejected' = IF run.threw THEN rejected \cup {r.id} ELSE rejected
        /\ done' = Append(done, [ id |-> r.id, status |-> status, data |-> data,
                                  before |-> logEntryCache, after |-> run.cache,
                                  printed |-> run.out, threw |-> run.threw,
                                  reports |-> reports, called |-> ok,
                                  failedAt |-> IF ok THEN 0 ELSE ticks ])

\* (mutant) a failed fetch is issued again at once
CompleteRetries(r, status, data) ==
    /\ r \in pending
    /\ IF status = 200
       THEN /\ pending' = pending \ {r}
            /\ UNCHANGED fetchLog
       ELSE LET again == [r EXCEPT !.id = Len(fetchLog) + 1] IN
            /\ pending' = (pending \ {r}) \cup {again}
            /\ fetchLog' = Append(fetchLog, again)
    /\ CompleteEffects(r, status, data)
    /\ UNCHANGED << cmd, isLocalCreds, started, timer, now, ticks, session2 >>

\* (mutant) reporting a failed fetch ends the polling
CompleteStops(r, status, data) ==
    /\ r \in pending
    /\ pending' = pending \ {r}
    /\ timer' = IF status = 200 THEN timer ELSE "none"
    /\ CompleteEffects(r, status, data)
    /\ UNCHANGED << cmd, isLocalCreds, started, now, ticks, fetchLog, session2 >>

\* (mutant) responses are held back until those of the earlier ticks were
\* processed
CompleteInTickOrder(r, status, data) ==
    /\ r \in pending
    /\ \A q \in pending : r.id <= q.id
    /\ pending' = pending \ {r}
    /\ CompleteEffects(r, status, data)
    /\ UNCHANGED << cmd, isLocalCreds, started, timer, now, ticks, fetchLog, session2 >>

\* the response of request r arrives with a status and a body: the awaiting
\* fetchAndPrintLogs resumes and runs to its end; nothing else is touched
Complete(r, status, data) ==
    /\ r \in pending
    /\ pending' = pending \ {r}
    /\ CompleteEffects(r, status, data)
    /\ UNCHANGED << cmd, isLocalCreds, started, timer, now, ticks, fetchLog, session2 >>

(***************************************************************************)
(* The mode dispatch, lines 482-491.                                       *)
(***************************************************************************)
\* (mutant) the window reaches back one poll interval only
TickStartDateOneInterval(t) == setSeconds(t, getSeconds(t) - POLL_INTERVAL \div 1000)

\* lines 485-486
TickStartDate(t) == setSeconds(t, getSeconds(t) - (WindowFactor * POLL_INTERVAL) \div 1000)

\* (mutant) the one-shot fetch is given the lower bound of a tick
DispatchWithStartDate ==
    /\ ~started
    /\ started' = TRUE
    /\ IF cmd.watch
       THEN /\ timer' = "armed"
            /\ UNCHANGED << pending, fetchLog >>
       ELSE /\ LET r == Request(TRUE, TickStartDate(now), 0, now) IN
                /\ pending' = pending \cup {r}
                /\ fetchLog' = Append(fetchLog, r)
            /\ UNCHANGED timer
    /\ UNCHANGED << cmd, isLocalCreds, now, ticks, logEntryCache, stdout, stderr, done,
                    rejected, session2 >>

\* (mutant) watch mode fetches once at the start, then on every tick
DispatchFetchesAtOnce ==
    /\ ~started
    /\ started' = TRUE
    /\ LET r == Request(cmd.watch, TickStartDate(now), 0, now) IN
        /\ pending' = pending \cup {r}
        /\ fetchLog' = Append(fetchLog, r)
    /\ timer' = IF cmd.watch THEN "armed" ELSE timer
    /\ UNCHANGED << cmd, isLocalCreds, now, ticks, logEntryCache, stdout, stderr, done,
                    rejected, session2 >>

\* lines 482-491: watch mode arms the timer, one-shot mode fetches at once
Dispatch ==
    /\ ~started
    /\ started' = TRUE
    /\ IF cmd.watch
       THEN /\ timer' = "armed"
            /\ UNCHANGED << pending, fetchLog >>
       ELSE /\ LET r == Request(FALSE, 0, 0, now) IN
                /\ pending' = pending \cup {r}
                /\ fetchLog' = Append(fetchLog, r)
            /\ UNCHANGED timer
    /\ UNCHANGED << cmd, isLocalCreds, now, ticks, logEntryCache, stdout, stderr, done,
                    rejected, session2 >>

\* (mutant) the callback is scheduled once (setTimeout) and not rearmed
TickOnce ==
    /\ timer = "armed"
    /\ ticks < MaxTicks
    /\ timer' = "none"
    /\ now' = now + POLL_INTERVAL
    /\ ticks' = ticks + 1
    /\ LET r == Request(TRUE, TickStartDate(now'), ticks', now') IN
        /\ pending' = pending \cup {r}
        /\ fetchLog' = Append(fetchLog, r)
    /\ UNCHANGED << cmd, isLocalCreds, started, logEntryCache, stdout, stderr, done,
                    rejected, session2 >>

\* (mutant) the callback does nothing while a fetch is in flight
TickSerialized ==
    /\ timer = "armed"
    /\ ticks < MaxTicks
    /\ pending = {}
    /\ now' = now + POLL_INTERVAL
    /\ ticks' = ticks + 1
    /\ LET r == Request(TRUE, TickStartDate(now'), ticks', now') IN
        /\ pending' = pending \cup {r}
        /\ fetchLog' = Append(fetchLog, r)
    /\ UNCHANGED << cmd, isLocalCreds, started, timer, logEntryCache, stdout, stderr, done,
                    rejected, session2 >>

\* lines 484-488: the timer callback, POLL_INTERVAL after the previous one
Tick ==
    /\ timer = "armed"
    /\ ticks < MaxTicks
    /\ now' = now + POLL_INTERVAL
    /\ ticks' = ticks + 1
    /\ LET r == Request(TRUE, TickStartDate(now'), ticks', now') IN
        /\ pending' = pending \cup {r}
        /\ fetchLog' = Append(fetchLog, r)
    /\ UNCHANGED << cmd, isLocalCreds, started, timer, logEntryCache, stdout, stderr, done,
                    rejected, session2 >>

(***************************************************************************)
(* Responses.                                                              *)
(***************************************************************************)
Statuses == {200, 401, 403, 500}

Data(entries) == [hasEntries |-> TRUE, entries |-> entries]

\* a response without an entries field
NoData == [hasEntries |-> FALSE, entries |-> << >>]

\* entries hi, hi-1, ..., lo: newest first, as orderBy asks
Descending(hi, lo) == [i \in 1..(hi - lo + 1) |-> Entry(hi - i + 1)]

RECURSIVE SeqsUpTo(_, _)
SeqsUpTo(S, n) ==
    IF n = 0 THEN {<< >>}
    ELSE LET shorter == SeqsUpTo(S, n - 1)
         IN  shorter \cup {Append(q, x) : q \in shorter, x \in S}

\* the bodies of the responses of a polling session
SessionData ==
    { NoData, Data(Descending(3, 1)), Data(<< Entry(2), NoLabelsEntry, Entry(1) >>),
      Data(Descending(PrintCap + MaxOver, 1)) }

\* the bodies handed to printLogs one after the other: every short batch in
\* every order and with repeats, batches around the cap, odd entries
BatchData ==
    { NoData }
    \cup { Data(q) : q \in SeqsUpTo({Entry(1), Entry(2)}, MaxLen) }
    \cup { Data(Descending(n, 1)) : n \in {3, PrintCap, PrintCap + MaxOver} }
    \cup { Data(Descending(PrintCap + MaxOver, MaxOver + 1)),
           Data(<< Entry(2), NoLabelsEntry, Entry(1) >>),
           Data(<< Entry(3), ConstructorEntry, Entry(2) >>),
           Data(<< AuditEntry, Entry(2), NoResourceEntry, Entry(1) >>) }

\* an invocation of logs that has not processed anything: line 338 gives it
\* an empty cache of its own
NewSession == [logEntryCache |-> {}, stdout |-> << >>, done |-> << >>]

(***************************************************************************)
(* Specifications.                                                         *)
(***************************************************************************)
\* the session starts shortly before the lower bounds of its filters pass
\* midnight (UTC) of 1970-01-02
StartTime == MsPerDay + (WindowFactor - 1) * POLL_INTERVAL - 3877

Init ==
    /\ cmd \in [json : BOOLEAN, watch : BOOLEAN]
    /\ isLocalCreds \in BOOLEAN
    /\ now = StartTime
    /\ started = FALSE
    /\ timer = "none"
    /\ ticks = 0
    /\ pending = {}
    /\ logEntryCache = {}
    /\ stdout = << >>
    /\ stderr = << >>
    /\ fetchLog = << >>
    /\ done = << >>
    /\ rejected = {}
    /\ session2 = NewSession

Respond == \E r \in pending, status \in Statuses, data \in SessionData :
               /\ (status # 200 => data = NoData)
               /\ Complete(r, status, data)

Next == Dispatch \/ Tick \/ Respond

Spec == Init /\ [][Next]_vars

\* setInterval keeps calling the callback while the timer is armed
FairSpec == Init /\ [][Next]_vars /\ WF_vars(Tick)

\* A watch session in which MaxTicks fetches are in flight, answered in the
\* order they were issued with status 200 and bodies of BatchData
RECURSIVE IssuedRequests(_, _)
IssuedRequests(t0, n) ==
    IF n = 0 THEN << >>
    ELSE LET before == IssuedRequests(t0, n - 1)
             at == t0 + n * POLL_INTERVAL
         IN  Append(before, [ id |-> n, filter |-> Filter(TRUE, TickStartDate(at)),
                              orderBy |-> "timestamp desc", tick |-> n, at |-> at ])

InitBatch ==
    /\ cmd \in [json : BOOLEAN, watch : {TRUE}]
    /\ isLocalCreds = FALSE
    /\ now = StartTime + MaxTicks * POLL_INTERVAL
    /\ started = TRUE
    /\ timer = "armed"
    /\ ticks = MaxTicks
    /\ fetchLog = IssuedRequests(StartTime, MaxTicks)
    /\ pending = {fetchLog[i] : i \in 1..MaxTicks}
    /\ logEntryCache = {}
    /\ stdout = << >>
    /\ stderr = << >>
    /\ done = << >>
    /\ rejected = {}
    /\ session2 = NewSession

RespondBatch == \E r \in pending, data \in BatchData :
                    /\ \A q \in pending : r.id <= q.id
                    /\ Complete(r, 200, data)

BatchSpec == InitBatch /\ [][RespondBatch]_vars

\* A watch session started with an options record that may carry a
\* pollIntervalMs member (0: the record has none); logs reads json and watch only
PollIntervals == {0, 1000, 12000}

InitInterval ==
    /\ cmd \in [json : {FALSE}, watch : {TRUE}, pollIntervalMs : PollIntervals]
    /\ isLocalCreds \in BOOLEAN
    /\ now = StartTime
    /\ started = FALSE
    /\ timer = "none"
    /\ ticks = 0
    /\ pending = {}
    /\ logEntryCache = {}
    /\ stdout = << >>
    /\ stderr = << >>
    /\ fetchLog = << >>
    /\ done = << >>
    /\ rejected = {}
    /\ session2 = NewSession

IntervalSpec == InitInterval /\ [][Next]_vars

\* a message of 300 characters: a JSON payload that serializes to more than 255
LongText ==
    LET ten == "0123456789"
        hundred == ten \o ten \o ten \o ten \o ten \o ten \o ten \o ten \o ten \o ten
    IN  hundred \o hundred \o hundred

\* The entries whose rendering is examined: every combination of severity,
\* function name and payload fields
RenderEntries ==
    { [ insertId      |-> "e",
        timestamp     |-> 1000,
        severity      |-> s,
        resource      |-> "labels",
        function_name |-> f,
        textPayload   |-> t,
        jsonPayload   |-> j,
        protoPayload  |-> p ] :
      s \in {"ERROR", "INFO", "DEBUG", "NOTICE", "WARNING", "CRITICAL", "constructor"},
      f \in {"", "myFunction"},
      t \in {"", "hello"},
      j \in {NoObject, Object("", "", "m"), Object("", "", LongText),
             Object(AuditLogType, "SetIamPolicy", "")},
      p \in {NoObject, Object("type.example/Status", "", "p"),
             Object(AuditLogType, "CreateSink", ""), Object(AuditLogType, "", "")} }

\* a later entry of the same severity as e, with a text payload
Twin(e) ==
    [ insertId |-> "twin", timestamp |-> 2000, severity |-> e.severity,
      resource |-> "labels", function_name |-> "other", textPayload |-> "twin",
      jsonPayload |-> NoObject, protoPayload |-> NoObject ]

\* a one-shot session whose fetch is in flight
InitRender ==
    /\ cmd \in [json : BOOLEAN, watch : {FALSE}]
    /\ isLocalCreds = FALSE
    /\ now = StartTime
    /\ started = TRUE
    /\ timer = "none"
    /\ ticks = 0
    /\ fetchLog = << [ id |-> 1, filter |-> Filter(FALSE, 0), orderBy |-> "timestamp desc",
                       tick |-> 0, at |-> StartTime ] >>
    /\ pending = {fetchLog[1]}
    /\ logEntryCache = {}
    /\ stdout = << >>
    /\ stderr = << >>
    /\ done = << >>
    /\ rejected = {}
    /\ session2 = NewSession

\* the fetch is answered with status 200 and a batch of two entries of one
\* severity
RespondRender == \E r \in pending, e \in RenderEntries :
                     Complete(r, 200, Data(<< Twin(e), e >>))

RenderSpec == InitRender /\ [][RespondRender]_vars

\* Two invocations of logs in one process, both watching, both answered with
\* status 200 and short batches that share identifiers
PairData == { NoData, Data(Descending(2, 1)), Data(Descending(3, 1)), Data(Descending(3, 2)) }

RespondSession1 == \E r \in pending, data \in PairData :
                       /\ \A q \in pending : r.id <= q.id
                       /\ Complete(r, 200, data)

\* (mutant) one cache for the whole process: the second invocation reads and
\* marks the cache of the first
RespondSession2Shared ==
    \E data \in PairData :
        /\ Len(session2.done) < MaxTicks
        /\ LET run == printLogs(data, cmd.json, logEntryCache) IN
            /\ session2' = [ logEntryCache |-> run.cache,
                             stdout |-> session2.stdout \o run.out,
                             done |-> Append(session2.done, data) ]
            /\ logEntryCache' = run.cache
        /\ UNCHANGED << cmd, isLocalCreds, started, timer, now, ticks, pending, stdout,
                        stderr, fetchLog, done, rejected >>

\* a fetch of the second invocation is answered with status 200: its printLogs
\* closes over the logEntryCache that its own call of logs created
RespondSession2 ==
    \E data \in PairData :
        /\ Len(session2.done) < MaxTicks
        /\ LET run == printLogs(data, cmd.json, session2.logEntryCache) IN
            session2' = [ logEntryCache |-> run.cache,
                          stdout |-> session2.stdout \o run.out,
                          done |-> Append(session2.done, data) ]
        /\ UNCHANGED << cmd, isLocalCreds, started, timer, now, ticks, pending,
                        logEntryCache, stdout, stderr, fetchLog, done, rejected >>

PairSpec == InitBatch /\ [][RespondSession1 \/ RespondSession2]_vars

(***************************************************************************)
(* Properties.                                                             *)
(***************************************************************************)
\* the lines of standard output that render entries
EntryLines == SelectSeq(stdout, LAMBDA l : l.src = "entry")

Ids(lines) == [i \in 1..Len(lines) |-> lines[i].insertId]
\* the identifiers of a batch, last entry first
IdsBackwards(entries) == [i \in 1..Len(entries) |-> entries[Len(entries) + 1 - i].insertId]
Range(f) == {f[i] : i \in DOMAIN f}
IsPrefix(p, q) == Len(p) <= Len(q) /\ \A i \in 1..Len(p) : p[i] = q[i]
StrictlyDescending(entries) ==
    \A i \in 1..(Len(entries) - 1) : entries[i].timestamp > entries[i + 1].timestamp
StrictlyAscending(lines) ==
    \A i \in 1..(Len(lines) - 1) : lines[i].timestamp < lines[i + 1].timestamp
UniqueIds(entries) ==
    \A i, j \in 1..Len(entries) : i # j => entries[i].insertId # entries[j].insertId

\* the completed fetches that called printLogs
Calls == {k \in 1..Len(done) : done[k].called}

\* C1: within one session, whatever batches printLogs was handed, no two lines
\* of standard output render entries with the same insertion identifier.
C1_PrintedAtMostOnce ==
    Cardinality(Range(Ids(EntryLines))) = Len(EntryLines)

\* the same 3-entry batch was processed twice and printed 3 lines in all
C1_Witness ==
    /\ Len(done) = 2
    /\ done[1].data = Data(Descending(3, 1))
    /\ done[2].data = Data(Descending(3, 1))
    /\ Len(EntryLines) = 3

\* C2: one invocation of printLogs prints at most 50 lines, for every batch and
\* every cache content.
C2_AtMostCapLines ==
    \A k \in Calls : Len(done[k].printed) <= PrintCap

\* a batch longer than the cap was processed against a cache that held none of
\* its identifiers, and exactly 50 lines were printed
C2_Witness ==
    \E k \in Calls :
        /\ Len(done[k].data.entries) > PrintCap
        /\ done[k].before = {}
        /\ Len(done[k].printed) = PrintCap

\* the precondition of C3: the entries are log entries with resource labels,
\* newest first, with unique identifiers that the cache lookup does not find
C3_Pre(k) ==
    LET entries == done[k].data.entries IN
    /\ StrictlyDescending(entries)
    /\ UniqueIds(entries)
    /\ \A i \in 1..Len(entries) :
          /\ ~CacheGet(done[k].before, entries[i].insertId)
          /\ entries[i].resource = "labels"

\* C3 as stated: for such a batch the printed sequence is the reverse of the
\* input sequence.
C3_Original ==
    \A k \in Calls :
        C3_Pre(k) => Ids(done[k].printed) = IdsBackwards(done[k].data.entries)

\* the precondition of C3 without the restriction to entries that render
C3_PreAny(k) ==
    LET entries == done[k].data.entries IN
    /\ StrictlyDescending(entries)
    /\ UniqueIds(entries)
    /\ \A i \in 1..Len(entries) : ~CacheGet(done[k].before, entries[i].insertId)

\* C3 (amended): for a batch in strictly descending timestamp order with unique
\* identifiers not yet seen, the printed lines are in strictly ascending
\* timestamp order and are a prefix of the reversed input: its first 50
\* entries (all of them when the batch has at most 50), unless rendering an
\* entry raised an error and ended the invocation.
C3_ReversedUpToCap ==
    \A k \in Calls :
        C3_PreAny(k) =>
            LET entries == done[k].data.entries IN
            /\ StrictlyAscending(done[k].printed)
            /\ IsPrefix(Ids(done[k].printed), IdsBackwards(entries))
            /\ ~done[k].threw => Len(done[k].printed) = Min(Len(entries), PrintCap)

\* a descending batch longer than the cap was printed: its 50 oldest entries,
\* oldest first
C3_Witness ==
    \E k \in Calls :
        /\ C3_Pre(k)
        /\ Len(done[k].data.entries) > PrintCap
        /\ Len(done[k].printed) = PrintCap
        /\ done[k].printed[1].insertId = done[k].data.entries[Len(done[k].data.entries)].insertId

\* an entry that lacks the resource labels
Malformed(e) == e.resource # "labels"

\* C10: a malformed entry does not fail the batch: when a batch holds an entry
\* without resource labels, the invocation ends normally and every entry among
\* the first 50 of the reversed batch that the cache did not hold, the
\* malformed one included, is printed and marked.
C10_MalformedDoesNotFailBatch ==
    \A k \in Calls :
        LET entries == done[k].data.entries
            ids == IdsBackwards(entries)
        IN  (\E i \in 1..Len(entries) : Malformed(entries[i])) =>
                /\ ~done[k].threw
                /\ \A i \in 1..Min(Len(ids), PrintCap) :
                      ~CacheGet(done[k].before, ids[i]) =>
                          /\ ids[i] \in Range(Ids(done[k].printed))
                          /\ ids[i] \in done[k].after

\* the completed fetches that failed
Failures == {k \in 1..Len(done) : done[k].status # 200}

\* C4: in watch mode a failed fetch does not end the polling: once a failure
\* has been reported the timer stays armed, and the ticks that remain of the
\* MaxTicks explored still fire, each issuing its fetch.
C4_FailureKeepsPolling ==
    /\ [](cmd.watch /\ Failures # {} => timer = "armed")
    /\ (cmd.watch /\ Failures # {})
           ~> (ticks = MaxTicks /\ Len(fetchLog) = MaxTicks /\ timer = "armed")

\* a tick fired, and its fetch was issued, after a failure had been reported
C4_Witness ==
    /\ cmd.watch
    /\ \E k \in Failures : \E j \in 1..Len(fetchLog) : fetchLog[j].tick > done[k].failedAt

\* C5: every fetch that returns a status other than 200 produces exactly one
\* error report.
C5_ExactlyOneReport ==
    /\ \A k \in Failures : Len(done[k].reports) = 1
    /\ Len(stderr) = Cardinality(Failures)

\* C6: on 401 and 403 the message variant follows the credential context: the
\* variant of the context is reported and the variant of the other context
\* never is.
C6_VariantByCredentials ==
    LET denied == IF isLocalCreds THEN ERROR_PERMISSION_DENIED_LOCAL
                  ELSE ERROR_PERMISSION_DENIED
        unauthenticated == IF isLocalCreds THEN ERROR_UNAUTHENTICATED_LOCAL
                           ELSE ERROR_UNAUTHENTICATED
        others == { ERROR_PERMISSION_DENIED_LOCAL, ERROR_PERMISSION_DENIED,
                    ERROR_UNAUTHENTICATED_LOCAL, ERROR_UNAUTHENTICATED }
                  \ {denied, unauthenticated}
    IN  /\ \A k \in Failures :
              /\ done[k].status = 403 => denied \in Range(done[k].reports)
              /\ done[k].status = 401 => unauthenticated \in Range(done[k].reports)
        /\ Range(stderr) \cap others = {}
        /\ \A k \in Failures : Range(done[k].reports) \subseteq Range(stderr)

\* a 403 was reported under local credentials
C6_Witness ==
    /\ isLocalCreds
    /\ \E k \in Failures : done[k].status = 403
    /\ ERROR_PERMISSION_DENIED_LOCAL \in Range(stderr)

\* the value of a string of decimal digits
DigitValue(c) == CHOOSE d \in 0..9 : ToString(d) = c
NumberOf(s) ==
    LET value[i \in 0..Len(s)] ==
            IF i = 0 THEN 0 ELSE 10 * value[i - 1] + DigitValue(SubSeq(s, i, i))
    IN  value[Len(s)]

\* the day number, counted from 1970-01-01, of a civil date
DaysFromCivil(year, m, d) ==
    LET y == IF m <= 2 THEN year - 1 ELSE year
        era == y \div 400
        yoe == y - era * 400
        doy == (153 * (IF m > 2 THEN m - 3 ELSE m + 9) + 2) \div 5 + d - 1
        doe == yoe * 365 + yoe \div 4 - yoe \div 100 + doy
    IN  era * 146097 + doe - 719468

\* the instant that a text YYYY-MM-DDTHH:mm:ss.sssZ denotes
IsoToMs(s) ==
    DaysFromCivil(NumberOf(SubSeq(s, 1, 4)), NumberOf(SubSeq(s, 6, 7)),
                  NumberOf(SubSeq(s, 9, 10))) * MsPerDay
    + NumberOf(SubSeq(s, 12, 13)) * (60 * 60 * 1000)
    + NumberOf(SubSeq(s, 15, 16)) * (60 * 1000)
    + NumberOf(SubSeq(s, 18, 19)) * 1000
    + NumberOf(SubSeq(s, 21, 23))

IsIsoText(s) ==
    /\ Len(s) = 24
    /\ \A i \in 1..24 :
          SubSeq(s, i, i) = (IF i \in {5, 8} THEN "-" ELSE IF i = 11 THEN "T"
                             ELSE IF i \in {14, 17} THEN ":" ELSE IF i = 20 THEN "."
                             ELSE IF i = 24 THEN "Z" ELSE ToString(DigitValue(SubSeq(s, i, i))))

\* C7: in watch mode every fetch carries a filter timestamp >= "<ISO 8601>"
\* whose instant is the time of its own tick minus 10 poll intervals (60000 ms).
C7_WatchFilterWindow ==
    cmd.watch =>
        \A k \in 1..Len(fetchLog) :
            LET f == fetchLog[k].filter IN
            /\ Len(f) = 39
            /\ SubSeq(f, 1, 14) = "timestamp >= \""
            /\ SubSeq(f, 39, 39) = "\""
            /\ IsIsoText(SubSeq(f, 15, 38))
            /\ IsoToMs(SubSeq(f, 15, 38)) = fetchLog[k].at - WindowFactor * POLL_INTERVAL
            /\ fetchLog[k].at = now - (ticks - fetchLog[k].tick) * POLL_INTERVAL

\* two ticks issued fetches with lower bounds on different days
C7_Witness ==
    /\ cmd.watch
    /\ Len(fetchLog) >= 2
    /\ fetchLog[1].filter # fetchLog[2].filter
    /\ SubSeq(fetchLog[1].filter, 15, 24) # SubSeq(fetchLog[2].filter, 15, 24)

\* C8: no automatic retry: a one-shot session issues exactly one fetch, a watch
\* session exactly one per tick, whatever the outcomes; every fetch issued is
\* in flight or has completed once.
C8_OneFetchPerTick ==
    /\ Len(fetchLog) = (IF cmd.watch THEN ticks ELSE IF started THEN 1 ELSE 0)
    /\ \A t \in 1..ticks : Cardinality({k \in 1..Len(fetchLog) : fetchLog[k].tick = t}) = 1
    /\ Cardinality(pending) + Len(done) = Len(fetchLog)
    /\ \A k \in 1..Len(fetchLog) : fetchLog[k].orderBy = "timestamp desc"

\* the single fetch of a one-shot session failed and no other was issued
C8_Witness ==
    /\ ~cmd.watch
    /\ Len(done) = 1
    /\ done[1].status # 200
    /\ Len(fetchLog) = 1
    /\ pending = {}

\* C9: watch mode has no stop condition: once watching, the timer is never
\* cleared and the ticks keep coming (all of the MaxTicks explored), whatever
\* the earlier fetches returned.
C9_WatchNeverStops ==
    /\ [](cmd.watch /\ started => timer = "armed")
    /\ (cmd.watch /\ started) ~> (ticks = MaxTicks /\ Len(fetchLog) = MaxTicks)

\* the last explored tick fired although an earlier fetch had failed, a batch
\* ended in an error as well, and the timer is still armed
C9_Witness ==
    /\ cmd.watch
    /\ timer = "armed"
    /\ ticks = MaxTicks
    /\ \E k \in Failures : done[k].failedAt < ticks
    /\ \E k \in Calls : done[k].threw

\* C11: an empty batch, or a response without an entries field, makes printLogs
\* print nothing, leave the cache as it was and raise no error.
C11_EmptyBatchIsSilent ==
    \A k \in Calls :
        (~done[k].data.hasEntries \/ done[k].data.entries = << >>) =>
            /\ done[k].printed = << >>
            /\ done[k].after = done[k].before
            /\ ~done[k].threw
            /\ done[k].id \notin rejected

\* a response without an entries field was processed against a cache that
\* already held identifiers, after which an empty batch was processed
C11_Witness ==
    /\ Len(done) = 2
    /\ logEntryCache # {}
    /\ \E k \in Calls : ~done[k].data.hasEntries /\ done[k].before # {}
    /\ \/ done[2].data = Data(<< >>)
       \/ done[2].data = NoData

\* the identifiers marked before the k-th completed fetch: those of the entries
\* printed by the fetches completed before it
MarkedBefore(k) == UNION {Range(Ids(done[j].printed)) : j \in 1..(k - 1)}

\* C12: the cache reports an identifier as seen exactly when it was marked
\* earlier in the session: an examined entry is printed by its invocation if and
\* only if its identifier was not marked by an earlier one; in particular the
\* first entry that carries a never-marked identifier is printed.
C12_SeenIffMarked ==
    \A k \in Calls :
        ~done[k].threw =>
            LET ids == IdsBackwards(done[k].data.entries) IN
            \A i \in 1..Min(Len(ids), PrintCap) :
                ids[i] \in Range(Ids(done[k].printed)) <=> ids[i] \notin MarkedBefore(k)

\* C13: the cache starts empty and only grows: every step of every execution
\* leaves a superset of the identifiers marked before it.
C13_CacheOnlyGrows ==
    /\ logEntryCache = {}
    /\ [][logEntryCache \subseteq logEntryCache']_vars

\* a second batch added identifiers to a cache that already held some
C13_Witness ==
    \E k \in Calls :
        /\ done[k].before # {}
        /\ done[k].before \subseteq done[k].after
        /\ done[k].after # done[k].before
        /\ logEntryCache = done[k].after

HasSuffix(text, suffix) ==
    /\ Len(suffix) <= Len(text)
    /\ SubSeq(text, Len(text) - Len(suffix) + 1, Len(text)) = suffix
HasPrefix(text, prefix) ==
    /\ Len(prefix) <= Len(text)
    /\ SubSeq(text, 1, Len(prefix)) = prefix

\* the entry of a batch that a printed line renders
EntryOf(line, entries) == entries[CHOOSE i \in 1..Len(entries) : entries[i].insertId = line.insertId]

\* the end of a line rendered with the audit override: the method name padded
\* to 15, a space, the setup message
AuditEnding(payload) ==
    " " \o padEnd(payload.methodName, FunctionNameWidth) \o " "
    \o padEnd(LOG_STACKDRIVER_SETUP, PayloadWidth)

\* the entry carries a payload object tagged as an audit-log record
CarriesAuditPayload(e) ==
    e.protoPayload.atType = AuditLogType \/ e.jsonPayload.atType = AuditLogType

\* C17 as stated: in non-JSON mode every entry that carries a payload object
\* tagged as an audit-log record is printed with the setup message as payload
\* and the method name of that payload, padded to 15, as function-name field,
\* whichever other payload fields it carries.
C17_Original ==
    \A k \in Calls : \A i \in 1..Len(done[k].printed) :
        LET line == done[k].printed[i]
            e == EntryOf(line, done[k].data.entries)
            audit == IF e.protoPayload.atType = AuditLogType THEN e.protoPayload
                     ELSE e.jsonPayload
        IN  (~cmd.json /\ CarriesAuditPayload(e)) => HasSuffix(line.text, AuditEnding(audit))

\* the proto payload is the selected payload and is tagged as an audit-log record
AuditSelected(e) ==
    /\ e.textPayload = ""
    /\ ~e.jsonPayload.present
    /\ e.protoPayload.atType = AuditLogType

\* C17 (amended): in non-JSON mode an entry is printed with the setup message
\* and the method name of its proto payload (padded to 15) exactly when it has
\* no text payload, no JSON payload and a proto payload tagged as an audit-log
\* record; such an entry, when its payload names a method and the cache does not
\* hold it, is printed; in JSON mode no entry is printed that way.
C17_AuditOverrideWhenSelected ==
    \A k \in Calls :
        LET entries == done[k].data.entries IN
        /\ \A i \in 1..Len(done[k].printed) :
              LET line == done[k].printed[i]
                  e == EntryOf(line, entries)
              IN  HasSuffix(line.text, AuditEnding(e.protoPayload))
                      <=> (~cmd.json /\ AuditSelected(e))
        /\ \A i \in 1..Len(entries) :
              ( /\ ~cmd.json
                /\ i = Len(entries)
                /\ AuditSelected(entries[i])
                /\ entries[i].protoPayload.methodName # ""
                /\ entries[i].resource = "labels"
                /\ ~CacheGet(done[k].before, entries[i].insertId) ) =>
                    \E n \in 1..Len(done[k].printed) :
                        done[k].printed[n].insertId = entries[i].insertId

\* an entry whose only payload is an audit-log proto payload was printed with
\* the override
C17_Witness ==
    /\ ~cmd.json
    /\ \E k \in Calls : \E i \in 1..Len(done[k].printed) :
          LET line == done[k].printed[i]
              e == EntryOf(line, done[k].data.entries)
          IN  /\ AuditSelected(e)
              /\ HasSuffix(line.text, AuditEnding(e.protoPayload))
              /\ e.protoPayload.methodName = "CreateSink"

\* the part of a printed line in front of its timestamp
SeverityField(line) ==
    LET stamp == " " \o ToString(line.timestamp) \o " "
        n == CHOOSE n \in 0..Len(line.text) :
                 /\ SubSeq(line.text, n + 1, n + Len(stamp)) = stamp
                 /\ \A m \in 0..(n - 1) : SubSeq(line.text, m + 1, m + Len(stamp)) # stamp
    IN  SubSeq(line.text, 1, n)

KnownSeverities == {"ERROR", "INFO", "DEBUG", "NOTICE", "WARNING"}

\* C18: severity formatting is a deterministic total function: two entries of
\* the same severity get the same severity field, whatever the cache holds and
\* whatever was rendered before, and a severity outside ERROR, INFO, DEBUG,
\* NOTICE, WARNING is shown unmodified, padded to width 20.
C18_SeverityFormat ==
    \A k \in Calls :
        LET entries == done[k].data.entries IN
        \A i \in 1..Len(done[k].printed) :
            LET line == done[k].printed[i]
                e == EntryOf(line, entries)
            IN  /\ \A j \in 1..Len(done[k].printed) :
                      EntryOf(done[k].printed[j], entries).severity = e.severity =>
                          SeverityField(done[k].printed[j]) = SeverityField(line)
                /\ e.severity \notin KnownSeverities =>
                      SeverityField(line) = padEnd(e.severity, SeverityWidth)

\* the identifiers of the entries of a response body
DataIds(data) == Range(IdsBackwards(data.entries))

\* C14: the cache belongs to the invocation: of two invocations of logs, each
\* prints every entry of its own batches once, whether or not the other has
\* marked the same identifier, and each cache holds exactly the identifiers its
\* own invocation printed, so that each output is determined by the invocation's
\* own batches.
C14_SessionsOwnTheirCaches ==
    /\ \A k \in Calls : DataIds(done[k].data) \subseteq Range(Ids(EntryLines))
    /\ \A k \in 1..Len(session2.done) :
           DataIds(session2.done[k]) \subseteq Range(Ids(session2.stdout))
    /\ logEntryCache = Range(Ids(EntryLines))
    /\ session2.logEntryCache = Range(Ids(session2.stdout))
    /\ Len(EntryLines) = Cardinality(UNION {DataIds(done[k].data) : k \in Calls})
    /\ Len(session2.stdout)
           = Cardinality(UNION {DataIds(session2.done[k]) : k \in 1..Len(session2.done)})

\* both invocations processed all their batches, and both printed the entry id2
C14_Witness ==
    /\ Len(done) = MaxTicks
    /\ Len(session2.done) = MaxTicks
    /\ "id2" \in Range(Ids(EntryLines))
    /\ "id2" \in Range(Ids(session2.stdout))
    /\ logEntryCache # session2.logEntryCache

\* C15: batches are processed one at a time, also when several fetches are in
\* flight: each invocation of printLogs starts from the cache the previous one
\* left and prints nothing that cache holds, the cache changes by the marks of
\* the running batch only, and standard output is the sequence of the completed fetches' outputs, none interleaved
\* with another.
C15_BatchesNotInterleaved ==
    LET Transcript[k \in 0..Len(done)] ==
            IF k = 0 THEN << >>
            ELSE Append(Transcript[k - 1], FilterLine(fetchLog[done[k].id].filter))
                 \o done[k].printed
    IN  /\ \A k \in 1..Len(done) :
              /\ done[k].before = (IF k = 1 THEN {} ELSE done[k - 1].after)
              /\ done[k].after = done[k].before \cup Range(Ids(done[k].printed))
              /\ done[k].before \cap Range(Ids(done[k].printed)) = {}
        /\ logEntryCache = (IF done = << >> THEN {} ELSE done[Len(done)].after)
        /\ stdout = Transcript[Len(done)]

\* two fetches were in flight together and completed in the reverse order, each
\* printing entries
C15_Witness ==
    /\ Len(done) = 2
    /\ done[1].id = 2 /\ done[2].id = 1
    /\ done[1].printed # << >>
    /\ done[2].printed # << >>

\* the identifiers of the entries of the batch of the k-th completed fetch
BatchIds(k) == Range(IdsBackwards(done[k].data.entries))

\* C16: recovery after the cap: an entry that a batch of more than 50 entries
\* left unprinted because of the cap is printed by the next batch that still
\* contains it.
C16_CapRecovered ==
    \A k \in Calls : \A j \in Calls :
        ( /\ k < j
          /\ ~done[k].threw /\ ~done[j].threw
          /\ Len(done[k].data.entries) > PrintCap ) =>
            \A id \in BatchIds(k) :
                ( /\ id \notin done[k].after
                  /\ id \in BatchIds(j)
                  /\ \A m \in (k + 1)..(j - 1) : id \notin BatchIds(m) ) =>
                    id \in Range(Ids(done[j].printed))

\* C19: in one-shot mode the single fetch carries an empty filter and asks for
\* timestamp descending order, and on status 200 its batch is handed to
\* printLogs: the lines printed are those of the batch, oldest first, up to the
\* cap or to the entry whose rendering raised an error.
C19_OneShotFetch ==
    ~cmd.watch =>
        /\ Len(fetchLog) <= 1
        /\ started => Len(fetchLog) = 1
        /\ \A k \in 1..Len(fetchLog) :
              /\ fetchLog[k].filter = ""
              /\ fetchLog[k].orderBy = "timestamp desc"
        /\ \A k \in 1..Len(done) :
              /\ done[k].called <=> done[k].status = 200
              /\ stdout[1].text = ""
              /\ done[k].status = 200 =>
                    /\ IsPrefix(Ids(done[k].printed), IdsBackwards(done[k].data.entries))
                    /\ ~done[k].threw =>
                          Len(done[k].printed) = Min(Len(done[k].data.entries), PrintCap)
              /\ done[k].status # 200 => done[k].printed = << >>

\* the fetch of a one-shot session returned 200 with three entries, which were
\* printed after the empty filter line
C19_Witness ==
    /\ ~cmd.watch
    /\ Len(done) = 1
    /\ done[1].status = 200
    /\ fetchLog[1].filter = ""
    /\ Len(stdout) = 4
    /\ Ids(EntryLines) = << "id1", "id2", "id3" >>

\* C20: the interval between the ticks of a watch session is the pollIntervalMs
\* member of the options record when the record has one, and 6000 ms otherwise.
C20_IntervalFromOptions ==
    LET interval == IF cmd.pollIntervalMs # 0 THEN cmd.pollIntervalMs ELSE 6000 IN
    cmd.watch =>
        \A k \in 1..Len(fetchLog) :
            fetchLog[k].at - (IF k = 1 THEN StartTime ELSE fetchLog[k - 1].at) = interval

\* C21: while fetching and printing, standard output holds the rendered lines
\* of the non-duplicate entries and nothing else: every line renders an entry,
\* and no identifier has two lines.
C21_OnlyEntryLines ==
    /\ \A i \in 1..Len(stdout) : stdout[i].src = "entry"
    /\ Cardinality(Range(Ids(stdout))) = Len(stdout)

\* the number of descriptions reported by the first k completed fetches
ReportedUpTo(k) ==
    LET Sum[i \in 0..k] == IF i = 0 THEN 0 ELSE Sum[i - 1] + Len(done[i].reports)
    IN  Sum[k]

\* C22: a completed fetch ends in one of two ways: with status 200 printLogs is
\* called on the batch and nothing is reported on the error sink; with any
\* other status something is reported, printLogs is not called, no entry line
\* is printed and the cache is left as it was.
C22_PrintedOrFailed ==
    /\ \A k \in 1..Len(done) :
          IF done[k].status = 200
          THEN /\ done[k].called
               /\ done[k].reports = << >>
          ELSE /\ done[k].reports # << >>
               /\ ~done[k].called
               /\ done[k].printed = << >>
               /\ done[k].after = done[k].before
    /\ Len(stderr) = ReportedUpTo(Len(done))
    /\ Len(EntryLines) = Cardinality(UNION {Range(Ids(done[k].printed)) : k \in Calls})

\* a fetch failed with a status that has no case of its own, against a cache
\* that held identifiers; the cache and the entry lines are as the earlier
\* successful fetch left them
C22_Witness ==
    /\ Len(done) = 2
    /\ done[1].status = 200 /\ done[1].printed # << >>
    /\ done[2].status = 500
    /\ logEntryCache = done[1].after
    /\ logEntryCache # {}
    /\ stderr # << >>

\* C23: ticks are not serialized behind the fetches in flight: while watching,
\* the timer callback can run whatever is pending, and when it runs it adds one
\* fetch to those in flight.
C23_TicksNotSerialized ==
    (cmd.watch /\ started /\ ticks < MaxTicks) => ENABLED Tick

\* two fetches are in flight, none of the session has completed
C23_Witness ==
    /\ cmd.watch
    /\ Cardinality(pending) >= 2
    /\ done = << >>
    /\ \E r, q \in pending : r.tick < q.tick

\* the payload a line should show when the precedence is text, JSON, proto,
\* placeholder
PayloadByPrecedence(e) ==
    LET serialized == JSONstringify(e.jsonPayload) IN
    IF e.textPayload # "" THEN padEnd(e.textPayload, PayloadWidth)
    ELSE IF e.jsonPayload.present
         THEN padEnd(SubSeq(serialized, 1, Min(Len(serialized), JsonPayloadMax)), PayloadWidth)
    ELSE IF e.protoPayload.present THEN "[object Object]"
    ELSE padEnd(ERROR_PAYLOAD_UNKNOWN, PayloadWidth)

\* C24: in non-JSON mode the payload shown is chosen by strict precedence: the
\* text payload when there is one; else the JSON payload serialized and cut to
\* at most 255 characters; else the proto payload (shown as an object is, and
\* subject to the audit-log override of C17); else the unknown-payload
\* placeholder.
C24_PayloadPrecedence ==
    \A k \in Calls : \A i \in 1..Len(done[k].printed) :
        LET line == done[k].printed[i]
            e == EntryOf(line, done[k].data.entries)
            fn == IF e.function_name # "" THEN padEnd(e.function_name, FunctionNameWidth)
                  ELSE ERROR_NO_FUNCTION_NAME
        IN  (~cmd.json /\ ~AuditSelected(e)) =>
                /\ line.text = SeverityField(line) \o " " \o ToString(e.timestamp) \o " "
                                  \o fn \o " " \o PayloadByPrecedence(e)
                /\ (e.textPayload = "" /\ e.jsonPayload.present) =>
                       Len(PayloadByPrecedence(e)) <= JsonPayloadMax

\* an entry without text payload, with a JSON payload longer than 255 characters
\* once serialized and with a proto payload, was printed with the first 255
\* characters of the serialized JSON payload
C24_Witness ==
    /\ ~cmd.json
    /\ \E k \in Calls : \E i \in 1..Len(done[k].printed) :
          LET line == done[k].printed[i]
              e == EntryOf(line, done[k].data.entries)
          IN  /\ e.textPayload = ""
              /\ e.jsonPayload.present
              /\ e.protoPayload.present
              /\ Len(JSONstringify(e.jsonPayload)) > JsonPayloadMax
              /\ HasSuffix(line.text, " " \o SubSeq(JSONstringify(e.jsonPayload), 1, JsonPayloadMax))

\* C25: print and mark go together: at every point of a session the identifiers
\* marked in the cache are those of the entries printed so far, and each
\* invocation of printLogs marks exactly what it prints, also when it ends in an
\* error.
C25_MarkedIffPrinted ==
    /\ logEntryCache = Range(Ids(EntryLines))
    /\ \A k \in Calls :
          /\ done[k].after \ done[k].before = Range(Ids(done[k].printed))
          /\ done[k].before \subseteq done[k].after
          /\ Cardinality(Range(Ids(done[k].printed))) = Len(done[k].printed)

\* an invocation printed an entry and then ended in an error at the next one;
\* the cache holds what was printed
C25_Witness ==
    /\ logEntryCache # {}
    /\ \E k \in Calls :
          /\ done[k].threw
          /\ done[k].printed # << >>
          /\ Len(done[k].printed) < Len(done[k].data.entries)

\* C26: of a batch of more than 50 entries printLogs examines the first 50 of
\* the reversed batch and no other: each of the 50 that the cache does not hold
\* is printed and marked, those it holds are skipped and still count, and an
\* entry past the 50th is neither printed nor marked.
C26_ExaminesFirstFifty ==
    \A k \in Calls :
        LET ids == IdsBackwards(done[k].data.entries)
            first == {ids[i] : i \in 1..Min(Len(ids), PrintCap)}
        IN  (Len(ids) > PrintCap /\ ~done[k].threw) =>
                /\ Range(Ids(done[k].printed)) = first \ done[k].before
                /\ done[k].after = done[k].before \cup first
                /\ \A i \in (PrintCap + 1)..Len(ids) :
                      ids[i] \notin first =>
                          /\ ids[i] \notin Range(Ids(done[k].printed))
                          /\ (ids[i] \in done[k].after <=> ids[i] \in done[k].before)

\* a batch of more than 50 entries met a cache holding its 50 oldest: nothing
\* was printed and the entry past the 50th stayed unmarked
C26_Witness ==
    \E k \in Calls :
        LET ids == IdsBackwards(done[k].data.entries) IN
        /\ Len(ids) > PrintCap
        /\ done[k].before # {}
        /\ done[k].printed = << >>
        /\ ids[PrintCap + 1] \notin done[k].after

\* C27: batches are processed in the order their responses arrive, not in tick
\* order: the response of any fetch in flight can be processed next, whichever
\* tick issued it; the entry lines on standard output are those of the completed
\* fetches in order of completion; and a batch prints no entry that a batch
\* processed before it has marked.
C27_ArrivalOrder ==
    LET Printed[k \in 0..Len(done)] ==
            IF k = 0 THEN << >> ELSE Printed[k - 1] \o done[k].printed
    IN  /\ EntryLines = Printed[Len(done)]
        /\ \A k \in Calls : \A j \in Calls :
              k < j => Range(Ids(done[j].printed)) \cap done[k].after = {}
        /\ \A r \in pending : ENABLED Complete(r, 200, NoData)

\* the response of the second tick arrived first: its batch was printed, and the
\* same batch, returned afterwards for the first tick, printed nothing
C27_Witness ==
    /\ Len(done) = 2
    /\ fetchLog[done[1].id].tick > fetchLog[done[2].id].tick
    /\ done[1].data = Data(Descending(3, 1))
    /\ done[2].data = Data(Descending(3, 1))
    /\ Len(done[1].printed) = 3
    /\ done[2].printed = << >>
    /\ done[2].called

\* C28: in watch mode nothing is fetched when the session starts: the first
\* fetch is issued by the first tick, one poll interval after watch mode was
\* entered, the k-th fetch by the k-th tick, and no step other than a tick
\* issues a fetch.
C28_FirstFetchAtFirstTick ==
    /\ [](cmd.watch =>
             /\ ticks = 0 => fetchLog = << >> /\ pending = {}
             /\ \A k \in 1..Len(fetchLog) :
                   /\ fetchLog[k].tick = k
                   /\ fetchLog[k].at = StartTime + k * POLL_INTERVAL
                   /\ fetchLog[k].filter # "")
    /\ [][cmd.watch /\ fetchLog' # fetchLog =>
             /\ ticks' = ticks + 1
             /\ now' = now + POLL_INTERVAL
             /\ Len(fetchLog') = Len(fetchLog) + 1]_vars

\* watch mode was entered and the first tick has issued the first fetch, one
\* poll interval after the start
C28_Witness ==
    /\ cmd.watch
    /\ started
    /\ ticks = 1
    /\ Len(fetchLog) = 1
    /\ fetchLog[1].at = StartTime + POLL_INTERVAL
    /\ now = StartTime + POLL_INTERVAL

====
